---- MODULE Spec2Model ----
(***************************************************************************)
(* A model of tlab_analysis: the u8167 raw-binary codec and the TRPLData   *)
(* value type of trpl.py, and the curve utilities of utils.py.             *)
(*                                                                         *)
(* The library is a set of pure functions over immutable values, so the    *)
(* state is the dataset in scope, the bytes held by the file or stream     *)
(* the codec reads, and the last call with what it returned or raised.     *)
(*                                                                         *)
(* The sizes of the u8167 layout are scaled down so that byte strings can  *)
(* be enumerated; the relations between them that the code relies on are   *)
(* kept:                                                                   *)
(*   - the intensity block holds exactly time_resolution *                 *)
(*     wavelength_resolution u16 values (614400 = 2 * 480 * 640);          *)
(*   - the wavelength and the time block have the same size and hold more  *)
(*     f32 values (1024) than either resolution (640, 480);                *)
(*   - wavelength_resolution > time_resolution;                            *)
(*   - every block size is a multiple of the u16 and f32 item sizes.       *)
(* Numbers are integers: an f32 is modelled by an integer value and its    *)
(* IEEE-754 single bit pattern, a window by a multiple of 1/WindowDen, a   *)
(* mean by the pair <<sum, count>>.  The defaults of utils.py are scaled    *)
(* as well: 5 resampled points for 1000, and for find_scdc a window of 3   *)
(* and a k of 1 for 10 and 2.                                              *)
(*                                                                         *)
(* Three specifications share the variables: Spec, the codec and the       *)
(* dataset; SpecAggregate, the aggregations of a dataset; SpecUtils, the   *)
(* curve utilities.                                                        *)
(***************************************************************************)
EXTENDS Integers, Sequences, FiniteSets, TLC

VARIABLES
    data,   \* the TRPLData object in scope: [df, header, metadata]
    file,   \* the bytes a path or stream gives, and who wrote them
    call,   \* the last call: its name and arguments
    ret     \* what the last call returned or raised

vars == <<data, file, call, ret>>

(***************************************************************************)
(* TRPLData.u8167: the instrument constants (scaled, see above).           *)
(***************************************************************************)
sector_size == 4                \* 1024 in the source
wavelength_resolution == 3      \* 640 in the source
time_resolution == 2            \* 480 in the source
num_sector_intensity == 3       \* 600 in the source
num_sector_wavelength == 4      \* 4 in the source
num_sector_time == 4            \* 4 in the source
header_size == 64               \* the literal of file.read(64)

intensity_size == sector_size * num_sector_intensity
wavelength_size == sector_size * num_sector_wavelength
time_size == sector_size * num_sector_time

(***************************************************************************)
(* Results: a call returns a value or raises an exception.                 *)
(***************************************************************************)
Return(v) == [exc |-> "none", val |-> v]
Raise(e, where) == [exc |-> e, val |-> where]

(***************************************************************************)
(* Bytes, integers and floats.                                             *)
(***************************************************************************)
Min(a, b) == IF a <= b THEN a ELSE b
Max(a, b) == IF a >= b THEN a ELSE b

RECURSIVE Flatten(_)
Flatten(ss) == IF ss = <<>> THEN <<>> ELSE Head(ss) \o Flatten(Tail(ss))

\* ljust forgotten: the bytes as they are
ljust_unpadded(b, width) == b

\* bytes.ljust(width, b"\x00")
ljust(b, width) ==
    IF Len(b) >= width THEN b ELSE b \o [i \in 1..(width - Len(b)) |-> 0]

\* the slice forgotten: the whole of b
TakeAll(b, n) == b

\* the slice b[:n]
Take(b, n) == SubSeq(b, 1, Min(n, Len(b)))

RECURSIVE Log2(_)
Log2(n) == IF n <= 1 THEN 0 ELSE 1 + Log2(n \div 2)

\* A non-negative integer converted to float32: exact up to 2^24, beyond it
\* rounded to the nearest representable value, ties to the even mantissa.
AsFloat32(n) ==
    IF n < 16777216 THEN n
    ELSE LET q == 2 ^ (Log2(n) - 23)
             down == n - (n % q)
             r == n % q
         IN  IF 2 * r < q THEN down
             ELSE IF 2 * r > q THEN down + q
             ELSE IF (down \div q) % 2 = 0 THEN down ELSE down + q

\* The integer -> uint16 cast of to_numpy(np.uint16): wraps modulo 2^16.
AsUInt16(n) == n % 65536

\* The IEEE-754 single bit pattern of a float32 with a non-negative integer value.
F32Bits(v) ==
    IF v = 0 THEN 0
    ELSE LET e == Log2(v)
         IN  ((127 + e) * 8388608)
             + (IF e <= 23 THEN (v - (2 ^ e)) * (2 ^ (23 - e))
                ELSE (v - (2 ^ e)) \div (2 ^ (e - 23)))

\* The value of a bit pattern; NaF stands for every float32 that is no
\* non-negative integer below 2^30 (none is written by the model's datasets).
NaF == 0 - 1
F32Value(bits) ==
    IF bits = 0 THEN 0
    ELSE LET e == (bits \div 8388608) - 127
             m == bits % 8388608
         IN  IF e < 0 \/ e > 29 THEN NaF
             ELSE IF e <= 23
                  THEN IF m % (2 ^ (23 - e)) = 0
                       THEN (2 ^ e) + (m \div (2 ^ (23 - e))) ELSE NaF
                  ELSE (2 ^ e) + (m * (2 ^ (e - 23)))

\* ndarray.tobytes("C") of a uint16 / float32 array (little-endian items).
U16ToBytes(arr) ==
    Flatten([i \in 1..Len(arr) |-> <<arr[i] % 256, arr[i] \div 256>>])
F32ToBytes(arr) ==
    Flatten([i \in 1..Len(arr) |->
        LET b == F32Bits(arr[i])
        IN  <<b % 256, (b \div 256) % 256, (b \div 65536) % 256, b \div 16777216>>])

\* np.frombuffer(buf, dtype): raises when the buffer is no whole number of items.
FromBufferU16(buf) ==
    IF Len(buf) % 2 # 0 THEN Raise("ValueError", "frombuffer")
    ELSE Return([i \in 1..(Len(buf) \div 2) |-> buf[2 * i - 1] + (256 * buf[2 * i])])
FromBufferF32(buf) ==
    IF Len(buf) % 4 # 0 THEN Raise("ValueError", "frombuffer")
    ELSE Return([i \in 1..(Len(buf) \div 4) |->
            IF buf[4 * i] >= 128 THEN NaF
            ELSE F32Value(buf[4 * i - 3] + (256 * buf[4 * i - 2])
                          + (65536 * buf[4 * i - 1]) + (16777216 * buf[4 * i]))])

(***************************************************************************)
(* Text: a string is a sequence of code points below 2048; UTF-8 encodes   *)
(* a code point below 128 in one byte and the others in two.               *)
(***************************************************************************)
EncodeUtf8(text) ==
    Flatten([i \in 1..Len(text) |->
        IF text[i] < 128 THEN <<text[i]>>
        ELSE <<192 + (text[i] \div 64), 128 + (text[i] % 64)>>])

\* bytes.decode("UTF-8"): [ok, text]; not ok is UnicodeDecodeError.
RECURSIVE DecodeUtf8(_)
DecodeUtf8(b) ==
    IF b = <<>> THEN [ok |-> TRUE, text |-> <<>>]
    ELSE IF b[1] < 128
         THEN LET rest == DecodeUtf8(Tail(b))
              IN  [ok |-> rest.ok, text |-> <<b[1]>> \o rest.text]
    ELSE IF b[1] >= 194 /\ b[1] < 224 /\ Len(b) >= 2 /\ b[2] >= 128 /\ b[2] < 192
         THEN LET rest == DecodeUtf8(Tail(Tail(b)))
              IN  [ok |-> rest.ok,
                   text |-> <<((b[1] - 192) * 64) + (b[2] - 128)>> \o rest.text]
    ELSE [ok |-> FALSE, text |-> <<>>]

\* "".join(lines)
Join(lines) == Flatten(lines)

(***************************************************************************)
(* A binary stream: content and position.                                  *)
(***************************************************************************)
\* file.read(n) at position pos (0-based count of bytes consumed)
\* a read that fills what the content lacks with zero bytes
ReadFilled(content, pos, n) ==
    [i \in 1..n |-> IF pos + i <= Len(content) THEN content[pos + i] ELSE 0]

Read(content, pos, n) == SubSeq(content, pos + 1, Min(pos + n, Len(content)))

\* file.readline() at position pos: through the next b"\n", or to the end
ReadLine(content, pos) ==
    LET nl == {i \in (pos + 1)..Len(content) : content[i] = 10}
    IN  IF nl = {} THEN SubSeq(content, pos + 1, Len(content))
        ELSE SubSeq(content, pos + 1, CHOOSE i \in nl : \A j \in nl : i <= j)

(***************************************************************************)
(* pandas: the sample table is a sequence of rows.                         *)
(***************************************************************************)
Row(t, w, i) == [time |-> t, wavelength |-> w, intensity |-> i]

Column(df, name) == [i \in 1..Len(df) |-> df[i][name]]

\* np.unique in place of Series.unique: the distinct values, sorted
UniqueSorted(s) ==
    LET S == {s[i] : i \in 1..Len(s)}
    IN  [p \in 1..Cardinality(S) |->
            CHOOSE v \in S : Cardinality({u \in S : u < v}) = p - 1]

\* Series.unique(): the distinct values in order of first occurrence
RECURSIVE Unique(_)
Unique(s) ==
    IF s = <<>> THEN <<>>
    ELSE LET front == Unique(SubSeq(s, 1, Len(s) - 1))
             last == s[Len(s)]
         IN  IF \E i \in 1..Len(front) : front[i] = last THEN front
             ELSE Append(front, last)

\* pd.DataFrame(dict(time=np.repeat(time, len(wavelength)),
\*                   wavelength=np.tile(wavelength, len(time)),
\*                   intensity=intensity)): the columns must have one length.
DataFrame(time, wavelength, intensity) ==
    LET nT == Len(time)
        nW == Len(wavelength)
    IN  IF Len(intensity) # nT * nW THEN Raise("ValueError", "DataFrame")
        ELSE Return([i \in 1..(nT * nW) |->
                Row(time[((i - 1) \div nW) + 1],
                    wavelength[((i - 1) % nW) + 1],
                    intensity[i])])

TRPLData(df, header, metadata) ==
    [df |-> df, header |-> header, metadata |-> metadata]

(***************************************************************************)
(* trpl.py: the defaults of a TRPLData built without instrument bytes.     *)
(* DEFAULT_METADATA keeps its four newline-terminated lines, each          *)
(* shortened to its first letter ("H", "S", "S", "D").                     *)
(***************************************************************************)
DEFAULT_HEADER ==
    <<73, 77, 205, 1, 128, 2, 224, 1, 0, 0, 0, 0, 2, 0, 0, 0>>
    \o [i \in 1..48 |-> 0]

DEFAULT_METADATA == << <<72, 10>>, <<83, 10>>, <<83, 10>>, <<68, 10>> >>

(***************************************************************************)
(* TRPLData.to_raw_binary                                                  *)
(***************************************************************************)
to_raw_binary(self) ==
    LET intensity == Column(self.df, "intensity")
        wavelength == Unique(Column(self.df, "wavelength"))
        time == Unique(Column(self.df, "time"))
    IN  self.header
        \o EncodeUtf8(Join(self.metadata))
        \o Take(ljust(U16ToBytes([i \in 1..Len(intensity) |-> AsUInt16(intensity[i])]),
                      intensity_size), intensity_size)
        \o Take(ljust(F32ToBytes([i \in 1..Len(wavelength) |-> AsFloat32(wavelength[i])]),
                      wavelength_size), wavelength_size)
        \o Take(ljust(F32ToBytes([i \in 1..Len(time) |-> AsFloat32(time[i])]),
                      time_size), time_size)

(***************************************************************************)
(* _read_file on a stream holding content and standing at pos: what it     *)
(* returns or raises, and in pos the position it leaves the stream at.     *)
(***************************************************************************)
Frame(r, pos) == [exc |-> r.exc, val |-> r.val, pos |-> pos]

_read_file(content, pos) ==
    LET header == Read(content, pos, header_size)
        p0 == pos + Len(header)
        raw1 == ReadLine(content, p0)
        p1 == p0 + Len(raw1)
        raw2 == ReadLine(content, p1)
        p2 == p1 + Len(raw2)
        raw3 == ReadLine(content, p2)
        p3 == p2 + Len(raw3)
        raw4 == ReadLine(content, p3)
        p4 == p3 + Len(raw4)
        line1 == DecodeUtf8(raw1)
        line2 == DecodeUtf8(raw2)
        line3 == DecodeUtf8(raw3)
        line4 == DecodeUtf8(raw4)
        metadata == <<line1.text, line2.text, line3.text, line4.text>>
        ibuf == Read(content, p4, sector_size * num_sector_intensity)
        p5 == p4 + Len(ibuf)
        wbuf == Read(content, p5, sector_size * num_sector_wavelength)
        p6 == p5 + Len(wbuf)
        tbuf == Read(content, p6, sector_size * num_sector_time)
        p7 == p6 + Len(tbuf)
        intensity == FromBufferU16(ibuf)
        wavelength == FromBufferF32(wbuf)
        time == FromBufferF32(tbuf)
    IN  IF ~line1.ok THEN Frame(Raise("UnicodeDecodeError", "decode"), p1)
        ELSE IF ~line2.ok THEN Frame(Raise("UnicodeDecodeError", "decode"), p2)
        ELSE IF ~line3.ok THEN Frame(Raise("UnicodeDecodeError", "decode"), p3)
        ELSE IF ~line4.ok THEN Frame(Raise("UnicodeDecodeError", "decode"), p4)
        ELSE IF intensity.exc # "none" THEN Frame(intensity, p5)
        ELSE IF wavelength.exc # "none" THEN Frame(wavelength, p6)
        ELSE IF time.exc # "none" THEN Frame(time, p7)
        ELSE LET df == DataFrame(Take(time.val, time_resolution),
                                 Take(wavelength.val, wavelength_resolution),
                                 intensity.val)
             IN  IF df.exc # "none" THEN Frame(df, p7)
                 ELSE Frame(Return(TRPLData(df.val, header, metadata)), p7)

(***************************************************************************)
(* read_file and read_img.  A source is its Python type; f is the file:    *)
(* a path names its bytes (opened at 0, if it exists), a buffered stream   *)
(* holds them and stands at f.pos.                                         *)
(***************************************************************************)
\* bytes taken for a path as well
PathTypesWithBytes == {"str", "PathLike", "bytes"}
PathTypes == {"str", "PathLike"}
StreamTypes == {"BufferedIOBase"}
OtherTypes == {"NoneType", "bytes", "RawIOBase"}
SourceTypes == PathTypes \cup StreamTypes \cup OtherTypes

read_file(type, f) ==
    IF type \in PathTypes
    THEN IF f.by = "nobody"
         THEN Frame(Raise("FileNotFoundError", "open"), f.pos)
         ELSE [_read_file(f.content, 0) EXCEPT !.pos = f.pos]
    ELSE IF type \in StreamTypes
    THEN _read_file(f.content, f.pos)
    ELSE Frame(Raise("ValueError", "read_file"), f.pos)

\* warnings.warn(...) is advisory; the call is forwarded.
read_img(type, f) == read_file(type, f)

(***************************************************************************)
(* TRPLData.__eq__: DataFrame == DataFrame raises on frames that are not   *)
(* identically labelled, and the tuple given to all() is built whole.      *)
(***************************************************************************)
DataFrameEq(a, b) ==
    IF Len(a) # Len(b) THEN Raise("ValueError", "DataFrame.__eq__")
    ELSE Return(\A i \in 1..Len(a) : a[i] = b[i])

__eq__(self, o) ==
    LET dfeq == DataFrameEq(self.df, o.df)
    IN  IF dfeq.exc # "none" THEN dfeq
        ELSE Return(dfeq.val /\ self.header = o.header /\ self.metadata = o.metadata)

(***************************************************************************)
(* TRPLData.to_streak_image                                                *)
(***************************************************************************)
\* sorted by wavelength first
RowLEWavelengthFirst(a, b) ==
    a.wavelength < b.wavelength \/ (a.wavelength = b.wavelength /\ a.time <= b.time)

RowLE(a, b) ==
    a.time < b.time \/ (a.time = b.time /\ a.wavelength <= b.wavelength)

\* DataFrame.sort_values(["time", "wavelength"]): a stable sort
RECURSIVE Insert(_, _)
Insert(s, r) ==
    IF s = <<>> THEN <<r>>
    ELSE IF RowLE(s[Len(s)], r) THEN Append(s, r)
    ELSE Append(Insert(SubSeq(s, 1, Len(s) - 1), r), s[Len(s)])

RECURSIVE sort_values(_)
sort_values(df) ==
    IF df = <<>> THEN <<>>
    ELSE Insert(sort_values(SubSeq(df, 1, Len(df) - 1)), df[Len(df)])

\* ndarray.reshape(rows, cols)
Reshape(arr, rows, cols) ==
    IF Len(arr) # rows * cols THEN Raise("ValueError", "reshape")
    ELSE Return([i \in 1..rows |-> [j \in 1..cols |-> arr[((i - 1) * cols) + j]]])

to_streak_image(self) ==
    LET sorted == Column(sort_values(self.df), "intensity")
    IN  Reshape([i \in 1..Len(sorted) |-> AsFloat32(sorted[i])],
                Len(Unique(Column(self.df, "time"))),
                Len(Unique(Column(self.df, "wavelength"))))

(***************************************************************************)
(* utils.py.  A window is the integer w standing for w / WindowDen.        *)
(***************************************************************************)
WindowDen == 4

validate_xdata_and_ydata(xdata, ydata) ==
    IF ~(Len(xdata) = Len(ydata))
    THEN Raise("ValueError", "validate_xdata_and_ydata")
    ELSE IF Len(xdata) = 0 \/ Len(ydata) = 0
    THEN Raise("ValueError", "validate_xdata_and_ydata")
    ELSE Return("None")

RECURSIVE Sum(_, _, _)
Sum(x, from, to) == IF from > to THEN 0 ELSE x[from] + Sum(x, from + 1, to)

\* pd.Series(x).rolling(window, center=True, min_periods=1).mean().to_list():
\* rolling() rejects min_periods > window; the window of the sample at i
\* ends (window - 1) // 2 samples after it and is clipped to the series.
\* A mean is <<sum, count>>.
rolling_mean(x, window) ==
    IF window < 1 THEN Raise("ValueError", "rolling")
    ELSE LET offset == (window - 1) \div 2
         IN  Return([i \in 1..Len(x) |->
                LET start == Max(i + offset - window + 1, 1)
                    end == Min(i + offset, Len(x))
                IN  <<Sum(x, start, end), end - start + 1>>])

\* the sample count rounded to the nearest integer instead of truncated
smooth_window_rounded(x, w) ==
    IF 0 < w /\ w <= WindowDen
    THEN ((2 * Len(x) * w) + WindowDen) \div (2 * WindowDen)
    ELSE ((2 * w) + WindowDen) \div (2 * WindowDen)

\* the _window of smooth, for a window that is not negative: int() truncates
smooth_window(x, w) ==
    IF 0 < w /\ w <= WindowDen
    THEN (Len(x) * w) \div WindowDen
    ELSE w \div WindowDen

smooth(x, w) ==
    IF w < 0 THEN Raise("ValueError", "smooth")
    ELSE rolling_mean(x, smooth_window(x, w))

\* scipy.interpolate.make_smoothing_spline, as far as its failures go: the
\* outcomes it can have.  It rejects x and y of different sizes and fewer
\* than five samples; on empty input the error depends on the scipy
\* release (x[0] is read before the size is checked in some).
make_smoothing_spline(x, y) ==
    IF Len(x) # Len(y) THEN {Raise("ValueError", "make_smoothing_spline")}
    ELSE IF Len(x) = 0
    THEN {Raise("ValueError", "make_smoothing_spline"),
          Raise("IndexError", "make_smoothing_spline")}
    ELSE IF Len(x) <= 4 THEN {Raise("ValueError", "make_smoothing_spline")}
    ELSE {Return("spline")}

(***************************************************************************)
(* The resampled curve.  spl(np.linspace(min(xdata), max(xdata),           *)
(* spline_size)) is numeric work of scipy (the smoothing strength is       *)
(* chosen by cross-validation): the values it gives are drawn from the     *)
(* curves below.  spline_size is scaled down from 1000.  A sample of the   *)
(* resampled curve is named by its index, and a place on the x axis by     *)
(* its position in half steps of the linspace: sample i lies at            *)
(* linspace(i) = 2 * (i - 1), a place between samples i and i + 1 at       *)
(* 2 * i - 1; x = min(xdata) + position * (max(xdata) - min(xdata)) /      *)
(* (2 * (spline_size - 1)) grows with the position, make_smoothing_spline  *)
(* accepting only ascending xdata.                                         *)
(***************************************************************************)
spline_size == 5
MaxCurve == 3       \* the largest value of a resampled curve
MaxPeakWidth == 2   \* the largest width required of a peak, in samples
RatioDen == 2       \* width_height_ratio is a multiple of 1 / RatioDen

Curves == [1..spline_size -> 0..MaxCurve]

linspace(i) == 2 * (i - 1)

\* the values of a set of numbers, the largest first
Descend(S) ==
    [p \in 1..Cardinality(S) |->
        CHOOSE v \in S : Cardinality({u \in S : u > v}) = p - 1]

\* the values of a set of numbers in ascending order
Ascend(S) ==
    [p \in 1..Cardinality(S) |->
        CHOOSE v \in S : Cardinality({u \in S : u < v}) = p - 1]

\* scipy.signal._peak_finding_utils._local_maxima_1d: a sample (or the
\* middle of a flat run of samples) with a lower sample on either side
PlateauEnd(y, i) ==
    CHOOSE r \in i..Len(y) :
        /\ \A j \in i..r : y[j] = y[i]
        /\ (r = Len(y) \/ y[r + 1] # y[i])

local_maxima_1d(y) ==
    Ascend({(i + PlateauEnd(y, i)) \div 2 :
        i \in {i \in 2..(Len(y) - 1) :
                /\ y[i - 1] < y[i]
                /\ PlateauEnd(y, i) < Len(y)
                /\ y[PlateauEnd(y, i) + 1] < y[i]}})

\* scipy.signal.peak_prominences: the bases are the lowest samples between
\* the peak and the next higher sample on either side, the nearest to the
\* peak first
peak_prominences(y, peak) ==
    LET L == {i \in 1..peak : \A j \in i..peak : y[j] <= y[peak]}
        R == {i \in peak..Len(y) : \A j \in peak..i : y[j] <= y[peak]}
        left_min == CHOOSE v \in {y[i] : i \in L} : \A i \in L : v <= y[i]
        right_min == CHOOSE v \in {y[i] : i \in R} : \A i \in R : v <= y[i]
        left_base == CHOOSE i \in L : y[i] = left_min /\ \A j \in L : (y[j] = left_min) => j <= i
        right_base == CHOOSE i \in R : y[i] = right_min /\ \A j \in R : (y[j] = right_min) => i <= j
    IN  [prominence |-> y[peak] - Max(left_min, right_min),
         left_base |-> left_base, right_base |-> right_base]

\* scipy.signal.peak_widths at rel_height 0.5, compared with the required
\* width: the width is measured at height = y[peak] - prominence / 2
\* between the linearly interpolated crossings on either side.  The
\* crossings are i + la / lb and j - ra / rb; heights are doubled.
wide_enough(y, peak, width) ==
    LET p == peak_prominences(y, peak)
        height == (2 * y[peak]) - p.prominence
        i == CHOOSE i \in p.left_base..peak :
                /\ (i = p.left_base \/ 2 * y[i] <= height)
                /\ \A j \in (i + 1)..peak : ~(j = p.left_base \/ 2 * y[j] <= height)
        j == CHOOSE j \in peak..p.right_base :
                /\ (j = p.right_base \/ 2 * y[j] <= height)
                /\ \A k \in peak..(j - 1) : ~(k = p.right_base \/ 2 * y[k] <= height)
        la == IF 2 * y[i] < height THEN height - (2 * y[i]) ELSE 0
        lb == IF 2 * y[i] < height THEN 2 * (y[i + 1] - y[i]) ELSE 1
        ra == IF 2 * y[j] < height THEN height - (2 * y[j]) ELSE 0
        rb == IF 2 * y[j] < height THEN 2 * (y[j - 1] - y[j]) ELSE 1
    IN  ((j - i - width) * lb * rb) - (la * rb) - (ra * lb) >= 0

\* scipy.signal.find_peaks(y, width=width): the indices of the local
\* maxima that are wide enough, ascending
signal_find_peaks(y, width) ==
    LET maxima == local_maxima_1d(y)
    IN  SelectSeq(maxima, LAMBDA peak : wide_enough(y, peak, width))

\* interpolate.UnivariateSpline(x, y - level, s=0).roots(), ascending: the
\* places where the curve through the samples meets the level (at a
\* sample) or crosses it (between two samples).  level is in units of
\* 1 / RatioDen.
roots(y, level) ==
    LET d == [i \in 1..Len(y) |-> (RatioDen * y[i]) - level]
    IN  Ascend({linspace(i) : i \in {i \in 1..Len(y) : d[i] = 0}}
               \cup {linspace(i) + 1 :
                        i \in {i \in 1..(Len(y) - 1) : d[i] * d[i + 1] < 0}})

\* bisect.bisect_left(a, v) for an ascending a
bisect_left(a, v) == Cardinality({k \in 1..Len(a) : a[k] < v})

\* x1=_roots[_idx] if _idx < len(x) else x[-1]: the index is compared with
\* the number of samples, and an index past the roots is an IndexError
Peak_x1(_roots, _idx, x) ==
    IF _idx < Len(x)
    THEN IF _idx < Len(_roots) THEN Return(_roots[_idx + 1])
         ELSE Raise("IndexError", "_roots[_idx]")
    ELSE Return(linspace(Len(x)))

\* Peak(x, y, x0, x1, y0) of the peak at a sample of the resampled curve;
\* y0 is in units of 1 / RatioDen
Peak(y, peak, width_height_ratio) ==
    LET _roots == roots(y, y[peak] * width_height_ratio)
        _idx == bisect_left(_roots, linspace(peak))
        x1 == Peak_x1(_roots, _idx, y)
    IN  IF x1.exc # "none" THEN x1
        ELSE Return([x |-> linspace(peak),
                     y |-> y[peak],
                     x0 |-> IF _idx > 0 THEN _roots[_idx] ELSE linspace(1),
                     x1 |-> x1.val,
                     y0 |-> y[peak] * width_height_ratio])

\* the Peak.width property
Peak_width(peak) == peak.x1 - peak.x0

\* the loop of find_peaks over the detected peaks: the first failure ends it
RECURSIVE Peaks(_, _, _)
Peaks(y, peaks, width_height_ratio) ==
    IF peaks = <<>> THEN Return(<<>>)
    ELSE LET front == Peaks(y, SubSeq(peaks, 1, Len(peaks) - 1), width_height_ratio)
             last == Peak(y, peaks[Len(peaks)], width_height_ratio)
         IN  IF front.exc # "none" THEN front
             ELSE IF last.exc # "none" THEN last
             ELSE Return(Append(front.val, last.val))

\* An outcome of a function that resamples: what it returns or raises, and
\* in y the resampled curve it worked on.
Sampled(r, y) == [exc |-> r.exc, val |-> r.val, y |-> y]

\* find_peaks does not validate xdata and ydata; its outcomes
find_peaks(xdata, ydata, width, width_height_ratio) ==
    UNION {IF spl.exc # "none" THEN {Sampled(spl, <<>>)}
           ELSE {Sampled(Peaks(y, signal_find_peaks(y, width), width_height_ratio), y) :
                    y \in Curves} :
        spl \in make_smoothing_spline(xdata, ydata)}

(***************************************************************************)
(* find_scdc.  Its defaults _window = 10 and _k = 2 are scaled down to 3   *)
(* and 1 so that short curves exercise it; a sample can still exceed the   *)
(* ceiling of its own window, (w - 1) / sqrt(w) > k.  Fractions are kept   *)
(* exact: a quantile in units of 1/20, the baseline as <<sum, count>>.     *)
(***************************************************************************)
scdc_window == 3
scdc_k == 1

RECURSIVE SumSq(_, _, _)
SumSq(x, from, to) ==
    IF from > to THEN 0 ELSE (x[from] * x[from]) + SumSq(x, from + 1, to)

\* the sample at i against the ceiling of the window ending one sample
\* before it
gt_sup_noise_before(y, i, window, k) ==
    /\ i - 1 >= window
    /\ LET S == Sum(y, i - window, i - 1)
           Q == SumSq(y, i - window, i - 1)
           above == (window * y[i]) - S
       IN  /\ above > 0
           /\ (above * above) * (window - 1)
                > (k * k) * window * ((window * Q) - (S * S))

\* df["y"].gt(sup_noise) at i, sup_noise = rolling.mean() + k * rolling.std()
\* of the window samples ending at i (NaN, so not exceeded, before a whole
\* window exists):  y[i] - S/w > k * sqrt((Q - S*S/w) / (w - 1))
gt_sup_noise(y, i, window, k) ==
    /\ i >= window
    /\ LET S == Sum(y, i - window + 1, i)
           Q == SumSq(y, i - window + 1, i)
           above == (window * y[i]) - S
       IN  /\ above > 0
           /\ (above * above) * (window - 1)
                > (k * k) * window * ((window * Q) - (S * S))

\* df["y"].gt(sup_noise).shift(-1, fill_value=False): the rows whose next
\* row exceeds
shifted_gt(y, window, k) ==
    {i \in 1..Len(y) : i + 1 <= Len(y) /\ gt_sup_noise(y, i + 1, window, k)}

\* np.sort
np_sort(s) ==
    [p \in 1..Len(s) |->
        s[CHOOSE i \in 1..Len(s) :
            Cardinality({j \in 1..Len(s) : s[j] < s[i]})
            + Cardinality({j \in 1..(i - 1) : s[j] = s[i]}) + 1 = p]]

\* Series.quantile(q / 20) of a series that is not empty, times 20
\* (linear interpolation between the two nearest ranks)
quantile(s, q) ==
    LET v == np_sort(s)
        pos == (Len(v) - 1) * q
        lo == (pos \div 20) + 1
        frac == pos % 20
    IN  IF frac = 0 THEN 20 * v[lo]
        ELSE (20 * v[lo]) + (frac * (v[lo + 1] - v[lo]))

\* background: df["y"][df["x"].le(df["x"][mask].min())], empty when no row
\* is masked (the minimum is NaN)
scdc_background(xdata, ydata, window, k) ==
    LET mask == shifted_gt(ydata, window, k)
    IN  IF mask = {} THEN <<>>
        ELSE LET xmin == CHOOSE v \in {xdata[i] : i \in mask} :
                            \A i \in mask : v <= xdata[i]
                 rows == Ascend({i \in 1..Len(xdata) : xdata[i] <= xmin})
             IN  [p \in 1..Len(rows) |-> ydata[rows[p]]]

\* baseline: background[background.between(background.quantile(0.05),
\* background.quantile(0.95))].mean(), <<sum, count>>; count 0 is NaN
scdc_baseline(background) ==
    IF background = <<>> THEN <<0, 0>>
    ELSE LET lo == quantile(background, 1)
             hi == quantile(background, 19)
             kept == SelectSeq(background, LAMBDA v : lo <= 20 * v /\ 20 * v <= hi)
         IN  <<Sum(kept, 1, Len(kept)), Len(kept)>>

\* the last row holding the maximum
argmax_last(y) ==
    CHOOSE m \in 1..Len(y) :
        /\ \A i \in 1..Len(y) : y[i] <= y[m]
        /\ \A i \in (m + 1)..Len(y) : y[i] < y[m]

\* Series.argmax(): the first row holding the maximum
argmax(y) ==
    CHOOSE m \in 1..Len(y) :
        /\ \A i \in 1..Len(y) : y[i] <= y[m]
        /\ \A i \in 1..(m - 1) : y[i] < y[m]

find_scdc(xdata, ydata) ==
    LET valid == validate_xdata_and_ydata(xdata, ydata)
    IN  IF valid.exc # "none" THEN valid
        ELSE LET baseline == scdc_baseline(
                                scdc_background(xdata, ydata, scdc_window, scdc_k))
                 below == {i \in 1..Len(ydata) :
                            /\ i < argmax(ydata)
                            /\ ydata[i] * baseline[2] < baseline[1]}
             IN  IF below = {} THEN Raise("ValueError", "ndarray.max")
                 ELSE LET index == CHOOSE i \in below : \A j \in below : j <= i
                      IN  Return(<<xdata[index], ydata[index]>>)

\* _decay_ratio = 0.10 is 1 / decay_ratio_den
decay_ratio_den == 10

\* an x that is NaN (the positions of samples are never negative)
NaN == 0 - 1

\* the x two rows before the maximum
fit_range_left_earlier(_y) == linspace(argmax(_y) - 2)

\* left: df["x"][int(df["y"].shift(2).argmax())].  shift(2) moves every
\* value two rows down, drops the last two and leaves NaN in the first two
\* rows, which argmax skips.
fit_range_left(_y) ==
    linspace(argmax(SubSeq(_y, 1, Len(_y) - 2)) + 2)

\* right: df["x"][(df.index > df["y"].argmax())
\*                & (df["y"].ge(_decay_ratio * df["y"].max()))].max()
fit_range_right(_y) ==
    LET rows == {i \in 1..Len(_y) :
                    /\ i > argmax(_y)
                    /\ decay_ratio_den * _y[i] >= _y[argmax(_y)]}
    IN  IF rows = {} THEN NaN
        ELSE linspace(CHOOSE i \in rows : \A j \in rows : j <= i)

determine_fit_range_dc(xdata, ydata) ==
    LET valid == validate_xdata_and_ydata(xdata, ydata)
    IN  IF valid.exc # "none" THEN {Sampled(valid, <<>>)}
        ELSE UNION {IF spl.exc # "none" THEN {Sampled(spl, <<>>)}
                    ELSE {Sampled(Return(<<fit_range_left(_y), fit_range_right(_y)>>), _y) :
                            _y \in Curves} :
                spl \in make_smoothing_spline(xdata, ydata)}

curve_fit(xdata, ydata) ==
    LET valid == validate_xdata_and_ydata(xdata, ydata)
    IN  IF valid.exc # "none" THEN {valid}
        ELSE UNION {IF spl.exc # "none" THEN {spl}
                    ELSE {Return("popt, pcov"), Raise("RuntimeError", "optimize.curve_fit")} :
                spl \in make_smoothing_spline(xdata, ydata)}

(***************************************************************************)
(* trpl.py: the aggregations of TRPLData.  An aggregated frame is          *)
(* [df, attrs]: its rows and its attrs.  A range that is None is <<>>; an  *)
(* offset is Auto or a float.                                              *)
(***************************************************************************)
None == <<>>
Auto == [auto |-> TRUE]
Float(v) == [auto |-> FALSE, value |-> v]

\* Series.between(left, right) with the bounds left out
between_exclusive(v, range) == range[1] < v /\ v < range[2]

\* Series.between(left, right): both bounds belong to the range
between(v, range) == range[1] <= v /\ v <= range[2]

\* (Series.min(), Series.max()); NaN for a series without values
min_max(s) ==
    IF s = <<>> THEN <<NaN, NaN>>
    ELSE <<CHOOSE v \in {s[i] : i \in 1..Len(s)} : \A i \in 1..Len(s) : v <= s[i],
           CHOOSE v \in {s[i] : i \in 1..Len(s)} : \A i \in 1..Len(s) : s[i] <= v>>

\* df[df[by].between(*range)].groupby(key).sum().drop(by, axis=1)
\*     .sort_values(key).reset_index(): one row per key of the rows in the
\* range, ascending, with the sum of their intensities
groupby_sum(df, by, range, key) ==
    LET rows == SelectSeq(df, LAMBDA row : between(row[by], range))
        keys == Ascend({rows[i][key] : i \in 1..Len(rows)})
        of(k) == SelectSeq(rows, LAMBDA row : row[key] = k)
    IN  [p \in 1..Len(keys) |->
            [key |-> keys[p],
             intensity |-> Sum(Column(of(keys[p]), "intensity"), 1, Len(of(keys[p])))]]

aggregate_along_time(self, time_range) ==
    LET range == IF time_range = None THEN min_max(Column(self.df, "time"))
                 ELSE time_range
        df == groupby_sum(self.df, "time", range, "wavelength")
    IN  Return([df |-> [p \in 1..Len(df) |->
                           [wavelength |-> df[p].key, intensity |-> df[p].intensity]],
                attrs |-> [time_range |-> range]])

\* the coordinate of find_scdc whatever offset was given
offset_from_scdc(offset, coordinate) == coordinate

\* scdc[..] if offset == "auto" else offset
offset_or_auto(offset, coordinate) ==
    IF offset = Auto THEN coordinate ELSE offset.value

\* df["time"] -= time_offset; df["intensity"] -= intensity_offset;
\* df.attrs.update(...)
offset(df, range, scdc, _time_offset, _intensity_offset) ==
    [exc |-> "none",
     val |-> [df |-> [p \in 1..Len(df) |->
                        [time |-> df[p].key - _time_offset,
                         intensity |-> df[p].intensity - _intensity_offset]],
              attrs |-> [wavelength_range |-> range,
                         time_offset |-> _time_offset,
                         intensity_offset |-> _intensity_offset]],
     scdc |-> scdc]

\* the branch of "auto"
offset_auto(df, range, time_offset, intensity_offset, scdc) ==
    IF scdc.exc # "none"
    THEN [exc |-> scdc.exc, val |-> scdc.val, scdc |-> <<scdc>>]
    ELSE offset(df, range, <<scdc>>,
                offset_or_auto(time_offset, scdc.val[1]),
                offset_or_auto(intensity_offset, scdc.val[2]))

\* What aggregate_along_wavelength returns or raises, and in scdc the
\* results of the calls of utils.find_scdc it made.
aggregate_along_wavelength(self, wavelength_range, time_offset, intensity_offset) ==
    LET range == IF wavelength_range = None THEN min_max(Column(self.df, "wavelength"))
                 ELSE wavelength_range
        df == groupby_sum(self.df, "wavelength", range, "time")
    IN  IF time_offset = Auto \/ intensity_offset = Auto
        THEN offset_auto(df, range, time_offset, intensity_offset,
                         find_scdc(Column(df, "key"), Column(df, "intensity")))
        ELSE offset(df, range, <<>>, time_offset.value, intensity_offset.value)

(***************************************************************************)
(* The datasets and the instrument dumps the model explores.               *)
(***************************************************************************)
MaxExtra == 1       \* axes run up to this many values beyond the resolutions

\* The intensities of the TRPLData doctest (np.random.seed(0)), continued.
DocIntensity == <<44, 47, 64, 67, 67, 9, 83, 21, 36, 87, 70, 88>>
Pattern(k, n) ==
    [i \in 1..n |->
        IF k = 1
        THEN IF i <= Len(DocIntensity) THEN DocIntensity[i] ELSE (37 * i) % 100
        ELSE <<0, 65535, 65536, 65537, 1>>[((i - 1) % 5) + 1]]

Ascending(first, step, n) == [i \in 1..n |-> first + (step * (i - 1))]
\* the same values, the largest first
Rotated(first, step, n) ==
    [i \in 1..n |-> IF i = 1 THEN first + (step * (n - 1)) ELSE first + (step * (i - 2))]

TimeAxes ==
    {Ascending(0, 5, n) : n \in 1..(time_resolution + MaxExtra)}
    \cup {Rotated(0, 5, n) : n \in 2..(time_resolution + MaxExtra)}
    \cup {<<0, 16777217>>}
WavelengthAxes ==
    {Ascending(400, 50, n) : n \in 1..(wavelength_resolution + MaxExtra)}
    \cup {Rotated(400, 50, n) : n \in 2..(wavelength_resolution + MaxExtra)}

\* The table as the doctest and the tests build it (np.repeat / np.tile).
Grid(time, wavelength, intensity) == DataFrame(time, wavelength, intensity).val

Reversed(df) == [i \in 1..Len(df) |-> df[Len(df) + 1 - i]]
\* the rows of a grid of nW wavelengths, wavelength by wavelength
ColumnMajor(df, nW) ==
    LET nT == Len(df) \div nW
    IN  [i \in 1..Len(df) |-> df[(((i - 1) % nT) * nW) + ((i - 1) \div nT) + 1]]
DropLast(df) == SubSeq(df, 1, Len(df) - 1)
RepeatFirst(df) == [i \in 1..Len(df) |-> IF i = Len(df) THEN df[1] ELSE df[i]]

Orders == {"row-major", "reversed", "column-major", "drop-last", "repeat-first"}
Ordered(df, nW, order) ==
    CASE order = "row-major" -> df
      [] order = "reversed" -> Reversed(df)
      [] order = "column-major" -> ColumnMajor(df, nW)
      [] order = "drop-last" -> DropLast(df)
      [] order = "repeat-first" -> RepeatFirst(df)

AltHeader == [DEFAULT_HEADER EXCEPT ![1] = 74]
Headers == {DEFAULT_HEADER, AltHeader, SubSeq(DEFAULT_HEADER, 1, header_size - 1)}
\* "Hé\n" in the first line; a last line without its newline; three lines;
\* a line holding two newlines
AltMetadata == << <<72, 233, 10>>, <<83, 10>>, <<83, 10>>, <<68, 10>> >>
Metadatas ==
    {DEFAULT_METADATA, AltMetadata,
     << <<72, 10>>, <<83, 10>>, <<83, 10>>, <<68>> >>,
     << <<72, 10>>, <<83, 10>>, <<83, 10>> >>,
     << <<72, 10, 72, 10>>, <<83, 10>>, <<83, 10>>, <<68, 10>> >>}

FullTime == Ascending(0, 5, time_resolution)
FullWavelength == Ascending(400, 50, wavelength_resolution)
FullGrid == Grid(FullTime, FullWavelength, Pattern(1, time_resolution * wavelength_resolution))

\* A decay measured at two wavelengths: summed over them the intensities
\* are 2, 1, 2, 2, 3, a background of 2 and a rise after the fourth time.
DecayTime == Ascending(0, 5, 5)
DecayIntensity == <<1, 1, 1, 0, 1, 1, 1, 1, 2, 1>>
DecayGrid == Grid(DecayTime, Ascending(400, 50, 2), DecayIntensity)

Datasets ==
    {TRPLData(Ordered(Grid(t, w, Pattern(k, Len(t) * Len(w))), Len(w), o),
              DEFAULT_HEADER, DEFAULT_METADATA) :
        t \in TimeAxes, w \in WavelengthAxes, k \in 1..2, o \in Orders}
    \cup {TRPLData(FullGrid, h, m) : h \in Headers, m \in Metadatas}
    \cup {TRPLData(DecayGrid, DEFAULT_HEADER, DEFAULT_METADATA)}

\* What the instrument wrote: the header, the metadata lines, and the three
\* blocks, each filled to its size (the values beyond the resolutions are
\* padding, zero or not).
BlockOf(axis, pad, size) ==
    [i \in 1..(size \div 4) |-> IF i <= Len(axis) THEN axis[i] ELSE pad]

DumpParts ==
    {[header |-> h, metadata |-> m,
      intensity |-> Pattern(k, intensity_size \div 2),
      wavelength |-> BlockOf(w, pad, wavelength_size),
      time |-> BlockOf(t, pad, time_size)] :
        h \in {DEFAULT_HEADER, AltHeader}, m \in {DEFAULT_METADATA, AltMetadata},
        k \in 1..2, pad \in {0, 999},
        w \in {FullWavelength, Rotated(400, 50, wavelength_resolution),
               [i \in 1..wavelength_resolution |-> 400]},
        t \in {FullTime, Rotated(0, 5, time_resolution)}}

Dump(parts) ==
    parts.header
    \o EncodeUtf8(Join(parts.metadata))
    \o U16ToBytes(parts.intensity)
    \o F32ToBytes(parts.wavelength)
    \o F32ToBytes(parts.time)

\* A dump that was cut short: the whole header and metadata, and of the
\* three blocks the first bytes only.
MetadataEnd(parts) == Len(parts.header) + Len(EncodeUtf8(Join(parts.metadata)))
Cuts(parts) == MetadataEnd(parts)..(Len(Dump(parts)) - 1)
CutParts ==
    {parts \in DumpParts :
        /\ parts.header = DEFAULT_HEADER
        /\ parts.metadata = DEFAULT_METADATA
        /\ parts.intensity = Pattern(1, intensity_size \div 2)
        /\ parts.wavelength = BlockOf(FullWavelength, 999, wavelength_size)
        /\ parts.time = BlockOf(FullTime, 999, time_size)}

NoParts == [header |-> <<>>, metadata |-> <<>>, intensity |-> <<>>,
            wavelength |-> <<>>, time |-> <<>>]
NoFile == [content |-> <<>>, by |-> "nobody", parts |-> NoParts, pos |-> 0]

(***************************************************************************)
(* The state machine of the codec and the dataset.                         *)
(***************************************************************************)
Init ==
    /\ call = [op |-> "TRPLData"]
    /\ ret = Return(<<>>)
    /\ \/ data \in Datasets /\ file = NoFile
       \/ /\ data = TRPLData(FullGrid, DEFAULT_HEADER, DEFAULT_METADATA)
          /\ \E parts \in DumpParts :
                file = [content |-> Dump(parts), by |-> "u8167",
                        parts |-> parts, pos |-> 0]
       \/ /\ data = TRPLData(FullGrid, DEFAULT_HEADER, DEFAULT_METADATA)
          /\ \E parts \in CutParts : \E n \in Cuts(parts) :
                file = [content |-> Take(Dump(parts), n), by |-> "truncated",
                        parts |-> parts, pos |-> 0]

\* data.to_raw_binary(); the caller keeps the bytes as a file or BytesIO
ToRawBinary ==
    LET raw == to_raw_binary(data)
    IN  /\ call' = [op |-> "to_raw_binary"]
        /\ ret' = Return(raw)
        /\ file' = [content |-> raw, by |-> "to_raw_binary", parts |-> NoParts, pos |-> 0]
        /\ UNCHANGED data

ReadFile ==
    \E type \in SourceTypes :
        LET frame == read_file(type, file)
        IN  /\ call' = [op |-> "read_file", type |-> type, start |-> file.pos]
            /\ ret' = [exc |-> frame.exc, val |-> frame.val]
            /\ file' = [file EXCEPT !.pos = frame.pos]
            /\ UNCHANGED data

ReadImg ==
    \E type \in SourceTypes :
        LET frame == read_img(type, file)
        IN  /\ call' = [op |-> "read_img", type |-> type, start |-> file.pos]
            /\ ret' = [exc |-> frame.exc, val |-> frame.val]
            /\ file' = [file EXCEPT !.pos = frame.pos]
            /\ UNCHANGED data

ToStreakImage ==
    /\ call' = [op |-> "to_streak_image"]
    /\ ret' = to_streak_image(data)
    /\ UNCHANGED <<data, file>>

\* The datasets data is compared with: itself, itself with one field
\* changed, and the dataset just read.
Others ==
    {data,
     [data EXCEPT !.header = AltHeader],
     [data EXCEPT !.metadata = AltMetadata],
     [data EXCEPT !.df = DropLast(data.df)],
     [data EXCEPT !.df = Reversed(data.df)]}
    \cup (IF call.op \in {"read_file", "read_img"} /\ ret.exc = "none"
          THEN {ret.val} ELSE {})

Eq ==
    \E o \in Others :
        /\ call' = [op |-> "__eq__", other |-> o]
        /\ ret' = __eq__(data, o)
        /\ UNCHANGED <<data, file>>

Next == ToRawBinary \/ ReadFile \/ ReadImg \/ ToStreakImage \/ Eq

Spec == Init /\ [][Next]_vars

(***************************************************************************)
(* The state machine of the aggregations: they read the dataset and touch  *)
(* neither it nor a file.                                                  *)
(***************************************************************************)
InitAggregate ==
    /\ call = [op |-> "TRPLData"]
    /\ ret = Return(<<>>)
    /\ data \in Datasets
    /\ file = NoFile

\* The ranges and the offsets the aggregations are called with: no range,
\* bounds that are values of the axis and bounds that are not, a range whose
\* bounds are swapped.
TimeRanges == {None, <<0, 5>>, <<3, 10>>, <<5, 5>>, <<5, 0>>}
WavelengthRanges == {None, <<400, 400>>, <<425, 500>>}
TimeOffsets == {Auto, Float(10)}
IntensityOffsets == {Auto, Float(3)}

AggregateAlongTime ==
    \E time_range \in TimeRanges :
        /\ call' = [op |-> "aggregate_along_time", time_range |-> time_range]
        /\ ret' = aggregate_along_time(data, time_range)
        /\ UNCHANGED <<data, file>>

\* find_scdc squares sums of intensities: "auto" is asked for on the datasets
\* whose intensities stay below MaxAutoIntensity, where those squares are
\* integers of 32 bits.
MaxAutoIntensity == 100
Offsets(offsets) ==
    IF \A i \in 1..Len(data.df) : data.df[i].intensity < MaxAutoIntensity
    THEN offsets ELSE offsets \ {Auto}

AggregateAlongWavelength ==
    \E wavelength_range \in WavelengthRanges, time_offset \in Offsets(TimeOffsets),
       intensity_offset \in Offsets(IntensityOffsets) :
        LET df == aggregate_along_wavelength(data, wavelength_range,
                                             time_offset, intensity_offset)
        IN  /\ call' = [op |-> "aggregate_along_wavelength",
                        wavelength_range |-> wavelength_range,
                        time_offset |-> time_offset,
                        intensity_offset |-> intensity_offset,
                        find_scdc |-> df.scdc]
            /\ ret' = [exc |-> df.exc, val |-> df.val]
            /\ UNCHANGED <<data, file>>

NextAggregate == AggregateAlongTime \/ AggregateAlongWavelength

SpecAggregate == InitAggregate /\ [][NextAggregate]_vars

(***************************************************************************)
(* Notions the claims are stated in.                                       *)
(***************************************************************************)
AcceptedTypes == {"str", "PathLike", "BufferedIOBase"}

Values(s) == {s[i] : i \in 1..Len(s)}
Times(df) == Values(Column(df, "time"))
Wavelengths(df) == Values(Column(df, "wavelength"))
Pairs(df) == {<<df[i].time, df[i].wavelength>> : i \in 1..Len(df)}

\* every (time, wavelength) pair of the axes occurs, and occurs once
CompleteGrid(df) ==
    /\ Pairs(df) = Times(df) \X Wavelengths(df)
    /\ Len(df) = Cardinality(Pairs(df))

\* the i-th smallest value of a set, i from 1
Smallest(S, i) == CHOOSE v \in S : Cardinality({u \in S : u < v}) = i - 1

\* the distinct values of s, each at the place of its first occurrence
FirstOccurrences(s) ==
    LET first == {i \in 1..Len(s) : \A j \in 1..(i - 1) : s[j] # s[i]}
    IN  [p \in 1..Cardinality(first) |->
            s[CHOOSE i \in first : Cardinality({j \in first : j <= i}) = p]]

\* bytes padded with zero bytes to size, or cut to it
PaddedOrTruncated(bytes, size) ==
    [k \in 1..size |-> IF k <= Len(bytes) THEN bytes[k] ELSE 0]

\* The full-layout table: sample i is (time[i // W], wavelength[i % W], .)
\* over nT distinct times and nW distinct wavelengths.
RowMajorGrid(df, nT, nW) ==
    LET time == FirstOccurrences(Column(df, "time"))
        wavelength == FirstOccurrences(Column(df, "wavelength"))
    IN  /\ Len(time) = nT
        /\ Len(wavelength) = nW
        /\ Len(df) = nT * nW
        /\ \A i \in 1..Len(df) :
              /\ df[i].time = time[((i - 1) \div nW) + 1]
              /\ df[i].wavelength = wavelength[((i - 1) % nW) + 1]

\* a 64-byte header and four lines, each ended by its only newline
WellFormedText(d) ==
    /\ Len(d.header) = header_size
    /\ Len(d.metadata) = 4
    /\ \A k \in 1..4 :
          LET line == d.metadata[k]
          IN  /\ Len(line) >= 1
              /\ \A c \in 1..Len(line) : (line[c] = 10) <=> (c = Len(line))

\* u16 intensities and f32 coordinates
TypedSamples(df) ==
    \A i \in 1..Len(df) :
        /\ df[i].intensity \in 0..65535
        /\ AsFloat32(df[i].time) = df[i].time
        /\ AsFloat32(df[i].wavelength) = df[i].wavelength

Decoding == call.op = "read_file" /\ call.type \in AcceptedTypes /\ call.start = 0

(***************************************************************************)
(* C1 (as stated): for every dataset with at most time_resolution (480)    *)
(* distinct times and at most wavelength_resolution (640) distinct         *)
(* wavelengths, read_file of its to_raw_binary() succeeds and the dataset  *)
(* read equals the dataset written.                                        *)
(***************************************************************************)
C1_RoundTripWithinCapacity ==
    (/\ Decoding
     /\ file.by = "to_raw_binary"
     /\ Cardinality(Times(data.df)) <= time_resolution
     /\ Cardinality(Wavelengths(data.df)) <= wavelength_resolution)
    => (ret.exc = "none" /\ __eq__(ret.val, data) = Return(TRUE))

(***************************************************************************)
(* C1 (amended): for every dataset whose table is the row-major grid of    *)
(* exactly time_resolution distinct times by wavelength_resolution         *)
(* distinct wavelengths, with u16 intensities, f32 coordinates, a 64-byte  *)
(* header and four newline-terminated metadata lines, read_file of its     *)
(* to_raw_binary() succeeds and the dataset read equals the one written.   *)
(***************************************************************************)
C1_RoundTripFullGrid ==
    (/\ Decoding
     /\ file.by = "to_raw_binary"
     /\ RowMajorGrid(data.df, time_resolution, wavelength_resolution)
     /\ TypedSamples(data.df)
     /\ WellFormedText(data))
    => (ret.exc = "none" /\ __eq__(ret.val, data) = Return(TRUE))

\* a full grid whose axes are not ascending has been written and read back
C1_Witness ==
    /\ Decoding
    /\ file.by = "to_raw_binary"
    /\ RowMajorGrid(data.df, time_resolution, wavelength_resolution)
    /\ TypedSamples(data.df)
    /\ WellFormedText(data)
    /\ data.df[1].time > data.df[Len(data.df)].time
    /\ ret.exc = "none"

C3_EncodeLayout ==
    (call.op = "to_raw_binary")
    => LET intensity == Column(data.df, "intensity")
           wavelength == FirstOccurrences(Column(data.df, "wavelength"))
           time == FirstOccurrences(Column(data.df, "time"))
           text == EncodeUtf8(Join(data.metadata))
       IN  /\ ret.exc = "none"
           /\ ret.val =
                data.header \o text
                \o PaddedOrTruncated(
                       U16ToBytes([i \in 1..Len(intensity) |-> intensity[i] % 65536]),
                       sector_size * num_sector_intensity)
                \o PaddedOrTruncated(
                       F32ToBytes([i \in 1..Len(wavelength) |-> AsFloat32(wavelength[i])]),
                       sector_size * num_sector_wavelength)
                \o PaddedOrTruncated(
                       F32ToBytes([i \in 1..Len(time) |-> AsFloat32(time[i])]),
                       sector_size * num_sector_time)
           /\ Len(ret.val) =
                Len(data.header) + Len(text)
                + (sector_size * (num_sector_intensity + num_sector_wavelength
                                  + num_sector_time))

\* a table larger than the intensity block and both axis capacities was encoded
C3_Witness ==
    /\ call.op = "to_raw_binary"
    /\ Len(data.df) > (sector_size * num_sector_intensity) \div 2
    /\ Cardinality(Wavelengths(data.df)) > wavelength_resolution
    /\ Len(data.header) = 64
    /\ ret.exc = "none"

(***************************************************************************)
(* C4: read_file and read_img take a path or a buffered binary stream;     *)
(* for a source of any other type they raise read_file's ValueError and    *)
(* read nothing; read_img returns or raises what read_file does for the    *)
(* same source.                                                            *)
(***************************************************************************)
C4_SourceTypes ==
    /\ (call.op \in {"read_file", "read_img"} /\ call.type \notin AcceptedTypes)
       => (ret = Raise("ValueError", "read_file") /\ file.pos = call.start)
    /\ (call.op \in {"read_file", "read_img"} /\ call.type \in AcceptedTypes)
       => ret # Raise("ValueError", "read_file")
    /\ (call.op = "read_img")
       => LET frame == read_file(call.type, [file EXCEPT !.pos = call.start])
          IN  ret = [exc |-> frame.exc, val |-> frame.val] /\ file.pos = frame.pos

\* read_img(None) on a file that exists
C4_Witness ==
    /\ call.op = "read_img"
    /\ call.type = "NoneType"
    /\ file.by # "nobody"
    /\ ret.exc = "ValueError"

(***************************************************************************)
(* C5: for a complete grid with every (time, wavelength) pair unique,      *)
(* to_streak_image returns distinct-times rows of distinct-wavelengths     *)
(* columns, grid[i][j] being the intensity of the sample with the i-th     *)
(* smallest time and the j-th smallest wavelength whatever the order of    *)
(* the rows; for a table sorted by (time, wavelength), grid[i][j] =        *)
(* intensity[i * W + j].                                                   *)
(***************************************************************************)
SortedTable(df) ==
    \A i \in 1..(Len(df) - 1) :
        \/ df[i].time < df[i + 1].time
        \/ (df[i].time = df[i + 1].time /\ df[i].wavelength <= df[i + 1].wavelength)

C5_StreakImage ==
    (call.op = "to_streak_image" /\ CompleteGrid(data.df))
    => LET nT == Cardinality(Times(data.df))
           nW == Cardinality(Wavelengths(data.df))
       IN  /\ ret.exc = "none"
           /\ Len(ret.val) = nT
           /\ \A i \in 1..nT :
                 /\ Len(ret.val[i]) = nW
                 /\ \A j \in 1..nW :
                       /\ \E r \in 1..Len(data.df) :
                             /\ data.df[r].time = Smallest(Times(data.df), i)
                             /\ data.df[r].wavelength = Smallest(Wavelengths(data.df), j)
                             /\ ret.val[i][j] = data.df[r].intensity
                       /\ SortedTable(data.df)
                          => ret.val[i][j] = data.df[((i - 1) * nW) + j].intensity

\* a complete grid whose rows are not in sorted order was converted
C5_Witness ==
    /\ call.op = "to_streak_image"
    /\ CompleteGrid(data.df)
    /\ ~SortedTable(data.df)
    /\ Cardinality(Times(data.df)) >= 2
    /\ Cardinality(Wavelengths(data.df)) >= 2
    /\ ret.exc = "none"

(***************************************************************************)
(* C6: to_streak_image raises the shape error for every table that is not  *)
(* a complete grid (a pair missing or a pair duplicated).                  *)
(***************************************************************************)
C6_ShapeError ==
    (call.op = "to_streak_image" /\ ~CompleteGrid(data.df))
    => ret.exc = "ValueError"

(***************************************************************************)
(* C7: a == b is true iff the headers, the metadata and the sample tables  *)
(* are equal row for row, and false (never an error) otherwise.            *)
(***************************************************************************)
C7_EqualityTotal ==
    (call.op = "__eq__")
    => ret = Return(/\ data.header = call.other.header
                    /\ data.metadata = call.other.metadata
                    /\ data.df = call.other.df)

(***************************************************************************)
(* The state machine of the curve utilities: the caller makes a call,      *)
(* takes what it returned or raised, and makes the next one; the           *)
(* functions keep nothing between calls.                                   *)
(***************************************************************************)
MaxLen == 5         \* the longest x and y
MaxSmoothLen == 3   \* the longest sequence smoothed
MaxY == 2           \* the largest sample of a smoothed sequence
MaxWindow == 10     \* the largest window, in units of 1 / WindowDen

Seqs(S, n) == UNION {[1..k -> S] : k \in 0..n}

MaxScdcLen == 5     \* the longest curve given to find_scdc
MaxScdcY == 2       \* the largest sample of such a curve

\* the curves given to find_scdc, and the x given with a curve: ascending
\* or descending, as long as the curve or one longer
ScdcY == Seqs(0..MaxScdcY, MaxScdcLen)
ScdcX(y) ==
    {[i \in 1..Len(y) |-> i - 1],
     [i \in 1..Len(y) |-> Len(y) - i],
     [i \in 1..(Len(y) + 1) |-> i - 1]}

\* x = 0, 1, ...; y the doctest intensities
XData(n) == [i \in 1..n |-> i - 1]
YData(n) == Pattern(1, n)

InitUtils ==
    /\ data = TRPLData(FullGrid, DEFAULT_HEADER, DEFAULT_METADATA)
    /\ file = NoFile
    /\ call = [op |-> "utils"]
    /\ ret = Return(<<>>)

Smooth ==
    /\ call.op = "utils"
    /\ \E x \in Seqs(0..MaxY, MaxSmoothLen), w \in (0 - WindowDen)..MaxWindow :
        /\ call' = [op |-> "smooth", x |-> x, window |-> w,
                    _window |-> IF w < 0 THEN 0 - 1 ELSE smooth_window(x, w)]
        /\ ret' = smooth(x, w)
        /\ UNCHANGED <<data, file>>

FindPeaks ==
    /\ call.op = "utils"
    /\ \E n \in 0..MaxLen, m \in 0..MaxLen,
          width \in 1..MaxPeakWidth, ratio \in 1..RatioDen :
        \E r \in find_peaks(XData(n), YData(m), width, ratio) :
            /\ call' = [op |-> "find_peaks", x |-> XData(n), y |-> YData(m),
                        width |-> width, width_height_ratio |-> ratio, _y |-> r.y]
            /\ ret' = [exc |-> r.exc, val |-> r.val]
            /\ UNCHANGED <<data, file>>

FindScdc ==
    /\ call.op = "utils"
    /\ \E y \in ScdcY : \E x \in ScdcX(y) :
        /\ call' = [op |-> "find_scdc", x |-> x, y |-> y]
        /\ ret' = find_scdc(x, y)
        /\ UNCHANGED <<data, file>>

DetermineFitRangeDc ==
    /\ call.op = "utils"
    /\ \E n \in 0..MaxLen, m \in 0..MaxLen :
        \E r \in determine_fit_range_dc(XData(n), YData(m)) :
            /\ call' = [op |-> "determine_fit_range_dc", x |-> XData(n), y |-> YData(m),
                        _y |-> r.y]
            /\ ret' = [exc |-> r.exc, val |-> r.val]
            /\ UNCHANGED <<data, file>>

CurveFit ==
    /\ call.op = "utils"
    /\ \E n \in 0..MaxLen, m \in 0..MaxLen :
        /\ call' = [op |-> "curve_fit", x |-> XData(n), y |-> YData(m)]
        /\ ret' \in curve_fit(XData(n), YData(m))
        /\ UNCHANGED <<data, file>>

\* the caller is done with the result
Discard ==
    /\ call.op # "utils"
    /\ call' = [op |-> "utils"]
    /\ ret' = Return(<<>>)
    /\ UNCHANGED <<data, file>>

NextUtils ==
    DetermineFitRangeDc \/ FindScdc \/ FindPeaks \/ Smooth \/ CurveFit \/ Discard

SpecUtils == InitUtils /\ [][NextUtils]_vars

(***************************************************************************)
(* C8: for every sequence and every positive window, smooth returns as     *)
(* many values as the sequence has, none missing, each the mean of the     *)
(* samples that exist in the window centred on it.                         *)
(***************************************************************************)
C8_SmoothEveryPositiveWindow ==
    (call.op = "smooth" /\ call.window > 0)
    => /\ ret.exc = "none"
       /\ Len(ret.val) = Len(call.x)
       /\ \A i \in 1..Len(call.x) :
             LET before == call._window \div 2
                 after == (call._window - 1) \div 2
                 inside == {j \in 1..Len(call.x) : i - before <= j /\ j <= i + after}
             IN  /\ ret.val[i][2] = Cardinality(inside)
                 /\ ret.val[i][2] >= 1
                 /\ ret.val[i][1] = Sum(call.x, Max(i - before, 1), Min(i + after, Len(call.x)))

AnalysisFunctions == {"find_peaks", "find_scdc", "determine_fit_range_dc", "curve_fit"}

C10_ValidationFirst ==
    (/\ call.op \in AnalysisFunctions
     /\ (Len(call.x) # Len(call.y) \/ Len(call.x) = 0 \/ Len(call.y) = 0))
    => ret = Raise("ValueError", "validate_xdata_and_ydata")

(***************************************************************************)
(* Notions the claims about the curve utilities are stated in.             *)
(***************************************************************************)
\* the largest and the smallest number of a set that is not empty
Largest(S) == CHOOSE v \in S : \A u \in S : u <= v
Least(S) == CHOOSE v \in S : \A u \in S : v <= u

\* the index of the global maximum of y, the first if it occurs again
GlobalMax(y) == Least({m \in 1..Len(y) : \A i \in 1..Len(y) : y[i] <= y[m]})

\* y[j] > noise_ceiling[i], the ceiling being rolling_mean + k * rolling_std
\* over the window samples ending at i (sample standard deviation),
\* undefined before a whole window exists
AboveCeiling(y, j, i, window, k) ==
    /\ i >= window
    /\ LET in == (i - window + 1)..i
           S == Sum(y, i - window + 1, i)
           Q == SumSq(y, i - window + 1, i)
       IN  /\ window * y[j] > S
           /\ (((window * y[j]) - S) * ((window * y[j]) - S)) * (window - 1)
                > (k * k) * window * ((window * Q) - (S * S))

\* the samples of y whose x is at most bound, in order
SamplesUpTo(x, y, bound) ==
    LET rows == Ascend({i \in 1..Len(x) : x[i] <= bound})
    IN  [p \in 1..Len(rows) |-> y[rows[p]]]

IsAscending(x) == \A i \in 1..(Len(x) - 1) : x[i] < x[i + 1]

ScdcValid == call.op = "find_scdc" /\ Len(call.x) = Len(call.y) /\ Len(call.x) > 0

(***************************************************************************)
(* C11: every Peak that find_peaks returns has x0 <= x <= x1, so a width   *)
(* x1 - x0 that is not negative, and y0 = y * width_height_ratio; and the  *)
(* peaks come in strictly increasing x.                                    *)
(***************************************************************************)
C11_PeakInvariants ==
    (call.op = "find_peaks" /\ ret.exc = "none")
    => /\ \A n \in 1..Len(ret.val) :
             LET peak == ret.val[n]
             IN  /\ peak.x0 <= peak.x
                 /\ peak.x <= peak.x1
                 /\ Peak_width(peak) >= 0
                 /\ peak.y0 = peak.y * call.width_height_ratio
       /\ \A n \in 1..(Len(ret.val) - 1) : ret.val[n].x < ret.val[n + 1].x

\* find_peaks returned two peaks, one of them bounded by a root on either
\* side
C11_Witness ==
    /\ call.op = "find_peaks"
    /\ ret.exc = "none"
    /\ Len(ret.val) >= 2
    /\ \E n \in 1..Len(ret.val) :
          /\ linspace(1) < ret.val[n].x0
          /\ ret.val[n].x0 < ret.val[n].x
          /\ ret.val[n].x < ret.val[n].x1

(***************************************************************************)
(* C12: when find_scdc returns, it returns (x[i], y[i]) for the largest    *)
(* index i before the index m of the global maximum of y whose y[i] is     *)
(* below the baseline: the sample lies before the maximum (x[i] < x[m]     *)
(* for ascending x) and is below the baseline.                             *)
(***************************************************************************)
C12_DecayStart ==
    (call.op = "find_scdc" /\ ret.exc = "none")
    => LET x == call.x
           y == call.y
           m == GlobalMax(y)
           baseline == scdc_baseline(scdc_background(x, y, scdc_window, scdc_k))
           below == {i \in 1..Len(y) : i < m /\ y[i] * baseline[2] < baseline[1]}
       IN  /\ below # {}
           /\ ret.val = <<x[Largest(below)], y[Largest(below)]>>
           /\ Largest(below) < m
           /\ IsAscending(x) => ret.val[1] < x[m]
           /\ ret.val[2] * baseline[2] < baseline[1]

\* find_scdc returned a sample that is not the one just before the
\* maximum, of a curve that reaches its maximum twice
C12_Witness ==
    /\ call.op = "find_scdc"
    /\ ret.exc = "none"
    /\ \E i \in 1..Len(call.y) :
          /\ ret.val = <<call.x[i], call.y[i]>>
          /\ i + 1 < GlobalMax(call.y)
    /\ \E j \in 1..Len(call.y) :
          j # GlobalMax(call.y) /\ call.y[j] = call.y[GlobalMax(call.y)]

(***************************************************************************)
(* C15 (as stated): for each peak detected on the resampled curve, x0 is   *)
(* the nearest root of (spline - half_level) left of the peak, or the      *)
(* domain minimum when there is none, and x1 the nearest root right of     *)
(* the peak, or the domain maximum when there is none; a peak without a    *)
(* crossing on its right gets x1 = max(x) and find_peaks does not fail.    *)
(***************************************************************************)
C15_HalfHeightBounds ==
    (call.op = "find_peaks" /\ call._y # <<>>)
    => LET peaks == signal_find_peaks(call._y, call.width)
       IN  /\ ret.exc = "none"
           /\ Len(ret.val) = Len(peaks)
           /\ \A n \in 1..Len(peaks) :
                 LET x == linspace(peaks[n])
                     half_level == call._y[peaks[n]] * call.width_height_ratio
                     all == Values(roots(call._y, half_level))
                     left == {r \in all : r < x}
                     right == {r \in all : r >= x}
                 IN  /\ ret.val[n].x = x
                     /\ ret.val[n].x0 = IF left = {} THEN linspace(1) ELSE Largest(left)
                     /\ ret.val[n].x1 = IF right = {} THEN linspace(Len(call._y))
                                        ELSE Least(right)

(***************************************************************************)
(* C16 (as stated): the background of find_scdc ends at the earliest       *)
(* index r with y[r+1] > noise_ceiling[r], the ceiling of the window       *)
(* ending at r, the sample before; the background is the samples with      *)
(* x <= x[r].                                                              *)
(***************************************************************************)
C16_LookaheadCeiling ==
    ScdcValid
    => LET crossing == {r \in 1..(Len(call.y) - 1) :
                            AboveCeiling(call.y, r + 1, r, scdc_window, scdc_k)}
       IN  (crossing # {})
           => scdc_background(call.x, call.y, scdc_window, scdc_k)
                = SamplesUpTo(call.x, call.y, call.x[Least(crossing)])

(***************************************************************************)
(* C16 (amended): the background of find_scdc ends at the index r with     *)
(* y[r+1] > noise_ceiling[r+1], the ceiling of the window that ends at     *)
(* the later sample and holds it; of such indices r is the one of the      *)
(* smallest x (the earliest when x ascends); the background is the         *)
(* samples with x <= x[r], and is empty when there is no such index.       *)
(***************************************************************************)
C16_OwnCeiling ==
    ScdcValid
    => LET crossing == {r \in 1..(Len(call.y) - 1) :
                            AboveCeiling(call.y, r + 1, r + 1, scdc_window, scdc_k)}
           background == scdc_background(call.x, call.y, scdc_window, scdc_k)
       IN  /\ (crossing = {}) => background = <<>>
           /\ (crossing # {})
              => background
                   = SamplesUpTo(call.x, call.y, Least({call.x[r] : r \in crossing}))
           /\ (crossing # {} /\ IsAscending(call.x))
              => background = SubSeq(call.y, 1, Least(crossing))

\* find_scdc returned for an ascending curve with a rise, and the ceilings
\* of the windows before the samples do not single out the same samples as
\* the ceilings of their own windows
C16_Witness ==
    /\ ScdcValid
    /\ ret.exc = "none"
    /\ IsAscending(call.x)
    /\ \E r \in 1..(Len(call.y) - 1) :
          AboveCeiling(call.y, r + 1, r + 1, scdc_window, scdc_k)
    /\ \E r \in 1..(Len(call.y) - 1) :
          AboveCeiling(call.y, r + 1, r + 1, scdc_window, scdc_k)
            # AboveCeiling(call.y, r + 1, r, scdc_window, scdc_k)

(***************************************************************************)
(* C17 (as stated): determine_fit_range_dc returns as left the x of the    *)
(* resampled curve two indices before the index p of its maximum, and as   *)
(* right the largest x among the resampled samples after p with            *)
(* y >= decay_ratio * peak_y; so left lies before the peak and             *)
(* left <= right.  (Nothing is asked of left when fewer than two samples   *)
(* precede the peak, nor of right when no sample qualifies.)               *)
(***************************************************************************)
C17_LeftBeforePeak ==
    (call.op = "determine_fit_range_dc" /\ ret.exc = "none")
    => LET _y == call._y
           p == GlobalMax(_y)
           after == {i \in 1..Len(_y) :
                        i > p /\ decay_ratio_den * _y[i] >= _y[p]}
       IN  /\ (p - 2 >= 1)
              => /\ ret.val[1] = linspace(p - 2)
                 /\ ret.val[1] < linspace(p)
           /\ (after # {})
              => /\ ret.val[2] = linspace(Largest(after))
                 /\ ret.val[1] <= ret.val[2]

(***************************************************************************)
(* C17 (amended): determine_fit_range_dc returns as left the x two         *)
(* indices after the index q of the maximum of the resampled curve         *)
(* without its last two samples; q is the index p of the maximum of the    *)
(* whole curve unless that lies in the last two samples, so left lies      *)
(* after the peak.  right is the largest x among the resampled samples     *)
(* after p with y >= decay_ratio * peak_y, and NaN when there is none.     *)
(* left <= right holds exactly when such a sample lies at or after left.   *)
(***************************************************************************)
C17_LeftAfterPeak ==
    (call.op = "determine_fit_range_dc" /\ ret.exc = "none")
    => LET _y == call._y
           p == GlobalMax(_y)
           q == GlobalMax(SubSeq(_y, 1, Len(_y) - 2))
           after == {i \in 1..Len(_y) :
                        i > p /\ decay_ratio_den * _y[i] >= _y[p]}
       IN  /\ ret.val[1] = linspace(q + 2)
           /\ (p <= Len(_y) - 2) => (q = p /\ ret.val[1] > linspace(p))
           /\ ret.val[2] = IF after = {} THEN NaN ELSE linspace(Largest(after))
           /\ (ret.val[2] # NaN /\ ret.val[1] <= ret.val[2])
              <=> (\E i \in after : i >= q + 2)

\* a range was returned for a curve with two samples before its peak and
\* two after it: left is the sample two after the peak, and right too
C17_Witness ==
    /\ call.op = "determine_fit_range_dc"
    /\ ret.exc = "none"
    /\ GlobalMax(call._y) >= 3
    /\ GlobalMax(call._y) <= Len(call._y) - 2
    /\ ret.val[1] = linspace(GlobalMax(call._y) + 2)
    /\ ret.val[2] # NaN
    /\ ret.val[1] <= ret.val[2]

(***************************************************************************)
(* The aggregations of a dataset.                                          *)
(***************************************************************************)
\* the rows of df whose column by lies in the closed interval range
InRange(df, by, range) ==
    {i \in 1..Len(df) : range[1] <= df[i][by] /\ df[i][by] <= range[2]}
\* the sum of the intensities of the rows S of df
RECURSIVE IntensityOf(_, _)
IntensityOf(df, S) ==
    IF S = {} THEN 0
    ELSE LET i == CHOOSE j \in S : TRUE
         IN  df[i].intensity + IntensityOf(df, S \ {i})
\* the whole span of a column
Span(df, by) ==
    IF df = <<>> THEN <<NaN, NaN>>
    ELSE <<Least({df[i][by] : i \in 1..Len(df)}), Largest({df[i][by] : i \in 1..Len(df)})>>

TheScenario ==
    data = TRPLData(Grid(Ascending(0, 5, 3), Ascending(400, 50, 3), Pattern(1, 9)),
                    DEFAULT_HEADER, DEFAULT_METADATA)

C13_Rows ==
    LET range == IF call.time_range = None THEN Span(data.df, "time")
                 ELSE call.time_range
        inside == InRange(data.df, "time", range)
        W == {data.df[i].wavelength : i \in inside}
        df == ret.val.df
    IN  /\ ret.exc = "none"
        /\ Len(df) = Cardinality(W)
        /\ {df[p].wavelength : p \in 1..Len(df)} = W
        /\ \A p \in 1..(Len(df) - 1) : df[p].wavelength < df[p + 1].wavelength
        /\ \A p \in 1..Len(df) :
              df[p].intensity =
                  IntensityOf(data.df, {i \in inside : data.df[i].wavelength = df[p].wavelength})
        /\ ret.val.attrs.time_range = range
        /\ (TheScenario /\ call.time_range = None) =>
              /\ Column(df, "wavelength") = <<400, 450, 500>>
              /\ Column(df, "intensity") = <<194, 135, 109>>

\* C13: aggregate_along_time(time_range) returns one row per distinct
\* wavelength among the samples whose time lies in the closed interval
\* [lo, hi] (the whole time span when time_range is None), in ascending
\* wavelength order, each with the sum of the intensities of exactly those
\* samples, and records the range used; the 3 x 3 scenario yields
\* [194, 135, 109] for the wavelengths [400, 450, 500]; the dataset is left
\* unchanged.
C13_AggregateAlongTime ==
    /\ [](call.op = "aggregate_along_time" => C13_Rows)
    /\ [][call'.op = "aggregate_along_time" => data' = data]_vars

\* a range that ends on a time of the dataset, so that the closed interval
\* takes the samples at its bounds, and that leaves samples out
C13_Witness ==
    /\ call.op = "aggregate_along_time"
    /\ TheScenario
    /\ call.time_range = <<0, 5>>
    /\ ret.exc = "none"
    /\ Column(ret.val.df, "intensity") = <<44 + 67, 47 + 67, 64 + 9>>

\* the per-time sums of the samples of the dataset whose wavelength lies in
\* the closed range, as the pair of the times, ascending, and the sums
PerTimeSums(range) ==
    LET inside == InRange(data.df, "wavelength", range)
        T == {data.df[i].time : i \in inside}
        time == [p \in 1..Cardinality(T) |->
                    CHOOSE t \in T : Cardinality({u \in T : u < t}) = p - 1]
    IN  <<time,
          [p \in 1..Len(time) |->
              IntensityOf(data.df, {i \in inside : data.df[i].time = time[p]})]>>

\* C14: aggregate_along_wavelength returns the per-time intensity sums over
\* the samples whose wavelength lies in the closed range (the whole span
\* when None), in ascending time order, with time_offset subtracted from
\* every time and intensity_offset from every sum; an offset "auto" is
\* replaced by the coordinate of find_scdc applied to the aggregated curve
\* before offsetting (x for time, y for intensity), an explicit offset is
\* used unchanged even when the other one is "auto", find_scdc is consulted
\* only when at least one offset is "auto", and the offsets applied are the
\* ones recorded in the attributes.
C14_AggregateAlongWavelength ==
    call.op = "aggregate_along_wavelength" =>
        LET range == IF call.wavelength_range = None THEN Span(data.df, "wavelength")
                     ELSE call.wavelength_range
            curve == PerTimeSums(range)
            auto == call.time_offset = Auto \/ call.intensity_offset = Auto
            scdc == find_scdc(curve[1], curve[2])
            time_offset == IF call.time_offset = Auto THEN scdc.val[1]
                           ELSE call.time_offset.value
            intensity_offset == IF call.intensity_offset = Auto THEN scdc.val[2]
                                ELSE call.intensity_offset.value
        IN  /\ call.find_scdc = IF auto THEN <<scdc>> ELSE <<>>
            /\ ret.exc # "none" => auto /\ ret = scdc
            /\ ret.exc = "none" =>
                  /\ Column(ret.val.df, "time") =
                        [p \in 1..Len(curve[1]) |-> curve[1][p] - time_offset]
                  /\ Column(ret.val.df, "intensity") =
                        [p \in 1..Len(curve[2]) |-> curve[2][p] - intensity_offset]
                  /\ ret.val.attrs = [wavelength_range |-> range,
                                      time_offset |-> time_offset,
                                      intensity_offset |-> intensity_offset]

\* the time offset found by find_scdc, away from the explicit one, next to
\* an explicit intensity offset, away from the one find_scdc found
C14_Witness ==
    /\ call.op = "aggregate_along_wavelength"
    /\ call.time_offset = Auto
    /\ call.intensity_offset = Float(3)
    /\ ret.exc = "none"
    /\ call.find_scdc = <<Return(<<5, 1>>)>>
    /\ ret.val.attrs.time_offset = 5
    /\ ret.val.attrs.intensity_offset = 3
    /\ Column(ret.val.df, "time") = <<0 - 5, 0, 5, 10, 15>>
    /\ Column(ret.val.df, "intensity") = <<0 - 1, 0 - 2, 0 - 1, 0 - 1, 0>>

(***************************************************************************)
(* Dumps that were cut short.                                              *)
(***************************************************************************)
\* the bytes a cut dump holds of the block that starts from bytes after the
\* metadata and is size bytes long
BytesOf(from, size) ==
    LET left == Len(file.content) - (MetadataEnd(file.parts) + from)
    IN  IF left <= 0 THEN 0 ELSE IF left >= size THEN size ELSE left

ShortRead == Decoding /\ file.by = "truncated"

\* C18 (as stated): given a content shorter than the full layout (a short
\* read in the intensity, wavelength or time block), read_file raises no
\* error and returns a dataset built from the truncated arrays.
C18_ShortReadReturns ==
    ShortRead => ret.exc = "none"

\* C18 (amended): read_file of a content that ends within the three blocks
\* returns a dataset exactly when every block holds whole values and the
\* intensities are as many as the times (at most time_resolution) times the
\* wavelengths (at most wavelength_resolution) that the bytes hold, and
\* the dataset is the one built from those values; otherwise it raises
\* ValueError.
C18_ShortReadRaisesUnlessLengthsAgree ==
    ShortRead =>
        LET ib == BytesOf(0, intensity_size)
            wb == BytesOf(intensity_size, wavelength_size)
            tb == BytesOf(intensity_size + wavelength_size, time_size)
            nI == ib \div 2
            nW == Min(wb \div 4, wavelength_resolution)
            nT == Min(tb \div 4, time_resolution)
            agree == ib % 2 = 0 /\ wb % 4 = 0 /\ tb % 4 = 0 /\ nI = nT * nW
        IN  IF agree
            THEN ret = Return(TRPLData(Grid(SubSeq(file.parts.time, 1, nT),
                                            SubSeq(file.parts.wavelength, 1, nW),
                                            SubSeq(file.parts.intensity, 1, nI)),
                                       file.parts.header, file.parts.metadata))
            ELSE ret.exc = "ValueError"

\* a dump that lacks the end of the padding of its time block is read as
\* the whole dataset
C18_Witness ==
    /\ ShortRead
    /\ Len(file.content) < Len(Dump(file.parts))
    /\ ret.exc = "none"
    /\ Len(ret.val.df) = time_resolution * wavelength_resolution

====
